---- MODULE Spec2Model ----
(***************************************************************************)
(* Model of the two diagnostic scripts of docs/issues/e2e-test-errors:     *)
(*   check-test-progress.py  (the Progress Reporter)                       *)
(*   count-projects.py       (the Project-State Counter)                   *)
(* Each script is a straight-line program over a file system it only       *)
(* reads.  The state is the file system, the position of the script and    *)
(* what it has printed so far.                                             *)
(***************************************************************************)
EXTENDS Integers, Sequences, FiniteSets, TLC

(***************************************************************************)
(* Program constants                                                       *)
(***************************************************************************)
CHECKPOINT_COUNT == 40
TOTAL_TESTS == 66
CHECKPOINT_PERCENT == 61
TopN == 5
NameCut == 70

(***************************************************************************)
(* Small helpers                                                           *)
(***************************************************************************)
Min(a, b) == IF a <= b THEN a ELSE b

RECURSIVE Pow2(_)
Pow2(n) == IF n = 0 THEN 1 ELSE 2 * Pow2(n - 1)

(***************************************************************************)
(* IEEE-754 binary64 arithmetic, as far as  int(test_count/TOTAL_TESTS*100) *)
(* needs it.  A positive double is [m, e]: m = <<h, mid, lo>> holds the    *)
(* 53-bit significand M = h*2^40 + mid*2^20 + lo  (2^52 <= M < 2^53) in    *)
(* limbs of 20 bits, and the value is M * 2^(e - 52).                      *)
(* Zero is [m |-> <<0, 0, 0>>, e |-> 0].                                   *)
(***************************************************************************)
LimbBits == 20
Limb == Pow2(LimbBits)
TopLimbBits == 53 - 2 * LimbBits

FZero == [m |-> <<0, 0, 0>>, e |-> 0]

IsZero(x) == x.m = <<0, 0, 0>>

\* round-to-nearest, ties-to-even: m is the 53 kept bits, guard the first
\* dropped bit, sticky whether anything below the guard bit is non-zero
RoundNearestEven(m, guard, sticky, e) ==
  IF guard = 1 /\ (sticky \/ m[3] % 2 = 1)
  THEN LET lo  == (m[3] + 1) % Limb
           c1  == (m[3] + 1) \div Limb
           mid == (m[2] + c1) % Limb
           c2  == (m[2] + c1) \div Limb
           h   == m[1] + c2
       IN  IF h = Pow2(TopLimbBits)
           THEN [m |-> <<Pow2(TopLimbBits - 1), 0, 0>>, e |-> e + 1]
           ELSE [m |-> <<h, mid, lo>>, e |-> e]
  ELSE [m |-> m, e |-> e]

\* largest e with den * 2^e <= num  (num >= den)
RECURSIVE ExpUp(_, _)
ExpUp(num, den) == IF 2 * den <= num THEN 1 + ExpUp(num, 2 * den) ELSE 0

\* smallest k with num * 2^k >= den  (0 < num)
RECURSIVE ExpDown(_, _)
ExpDown(num, den) == IF num >= den THEN 0 ELSE 1 + ExpDown(2 * num, den)

\* a / b for small integers a >= 0, b > 0: Python's true division of two
\* ints, which is correctly rounded.  num/den is a/b scaled into [1, 2); the
\* long division yields floor(num * 2^53 / den), 54 bits: the 53 kept bits
\* and the guard bit; the remainder gives the sticky bit.
FDivInt(a, b) ==
  IF a = 0 THEN FZero
  ELSE LET up  == IF a >= b THEN ExpUp(a, b) ELSE 0
           dn  == IF a >= b THEN 0 ELSE ExpDown(a, b)
           num == a * Pow2(dn)
           den == b * Pow2(up)
           h0  == (num * Pow2(TopLimbBits)) \div den
           r0  == (num * Pow2(TopLimbBits)) % den
           d1  == (r0 * Limb) \div den
           r1  == (r0 * Limb) % den
           d2  == (r1 * Limb) \div den
           r2  == (r1 * Limb) % den
           m   == << h0 \div 2,
                     (d1 \div 2) + (h0 % 2) * (Limb \div 2),
                     (d2 \div 2) + (d1 % 2) * (Limb \div 2) >>
       IN  RoundNearestEven(m, d2 % 2, r2 # 0, up - dn)

\* bits needed to write the non-negative integer k
RECURSIVE BitLen(_)
BitLen(k) == IF k = 0 THEN 0 ELSE 1 + BitLen(k \div 2)

\* x * k for a double x and a small positive integer k, correctly rounded:
\* the exact product p2:p1:p0 is s bits too long and is shifted right by s
FMulInt(x, k) ==
  IF IsZero(x) THEN FZero
  ELSE LET p0 == (x.m[3] * k) % Limb
           c0 == (x.m[3] * k) \div Limb
           p1 == (x.m[2] * k + c0) % Limb
           c1 == (x.m[2] * k + c0) \div Limb
           p2 == x.m[1] * k + c1
           s  == BitLen(p2) - TopLimbBits
       IN  IF s = 0 THEN [m |-> <<p2, p1, p0>>, e |-> x.e]
           ELSE LET sh == Pow2(s)
                    up == Pow2(LimbBits - s)
                    m  == << p2 \div sh,
                             (p1 \div sh) + (p2 % sh) * up,
                             (p0 \div sh) + (p1 % sh) * up >>
                IN  RoundNearestEven(m, (p0 \div (sh \div 2)) % 2,
                                     p0 % (sh \div 2) # 0, x.e + s)
\* a variant that rounds to the nearest integer instead of truncating
FloatToIntRounded(x) ==
  IF IsZero(x) \/ x.e < -1 THEN 0
  ELSE IF x.e = -1 THEN 1
  ELSE IF x.e < TopLimbBits - 1
       THEN x.m[1] \div Pow2(TopLimbBits - 1 - x.e)
              + ((x.m[1] \div Pow2(TopLimbBits - 2 - x.e)) % 2)
  ELSE x.m[1] * Pow2(x.e - TopLimbBits + 1)
         + (x.m[2] \div Pow2(LimbBits + TopLimbBits - 1 - x.e))
         + ((x.m[2] \div Pow2(LimbBits + TopLimbBits - 2 - x.e)) % 2)

\* int(x): truncation toward zero of a non-negative double below 2^31
FloatToInt(x) ==
  IF IsZero(x) \/ x.e < 0 THEN 0
  ELSE IF x.e < TopLimbBits THEN x.m[1] \div Pow2(TopLimbBits - 1 - x.e)
  ELSE x.m[1] * Pow2(x.e - TopLimbBits + 1)
         + (x.m[2] \div Pow2(LimbBits + TopLimbBits - 1 - x.e))

\* int(test_count / TOTAL_TESTS * 100)
Percent(test_count) == FloatToInt(FMulInt(FDivInt(test_count, TOTAL_TESTS), 100))

(***************************************************************************)
(* Bounds of the model                                                     *)
(***************************************************************************)
MaxDirs == 68        \* result directories in the initial results directory
MaxFiles == 2        \* non-directory entries next to them
MaxNested == 1       \* entries one level below the first result directory
LongNameLen == 72    \* length of the long directory names (> NameCut)
ConcMaxDirs == 6     \* result directories when another process interferes
MaxEnvOps == 2       \* file-system changes made by the other process

(***************************************************************************)
(* File names are sequences of one-character strings.                      *)
(***************************************************************************)
Digits == <<"0", "1", "2", "3", "4", "5", "6", "7", "8", "9">>

Digit(d) == Digits[(d % 10) + 1]

Number3(i) == <<Digit(i \div 100), Digit(i \div 10), Digit(i)>>

Padding(n) == [k \in 1..n |-> "x"]

\* the name of the i-th result directory: every fourth one is longer than
\* NameCut, and another fourth is exactly NameCut characters long
DirName(i) ==
  <<"t">> \o Number3(i) \o
     (IF i % 4 = 0 THEN Padding(LongNameLen - 4)
      ELSE IF i % 4 = 2 THEN Padding(NameCut - 4)
      ELSE <<>>)

FileName(j) == <<"f">> \o Number3(j) \o <<".", "l", "o", "g">>

NestedName(k) == <<"n">> \o Number3(k)

(***************************************************************************)
(* The results directory  <script-dir>/../../completed/test-results-raw.   *)
(* A node is an entry of the tree below it: parent is <<>> for an          *)
(* immediate child and the name of the containing child otherwise.         *)
(***************************************************************************)
BaseTime == 20384 * 86400 + 56310       \* 2025-10-23 15:38:30 UTC

MTimePatterns == {"ascending", "descending", "scattered", "ties"}

\* modification time of the i-th result directory under a pattern
MTimeOf(i, pat) ==
  CASE pat = "ascending"  -> BaseTime + 3600 * i
    [] pat = "descending" -> BaseTime - 61 * i
    [] pat = "scattered"  -> BaseTime + 997 * ((i * 37) % 101)
    [] pat = "ties"       -> BaseTime + (i % 3)

DirNode(i, pat) ==
  [name |-> DirName(i), parent |-> <<>>, isdir |-> TRUE, mtime |-> MTimeOf(i, pat)]

\* non-directory entries are the most recently modified entries of all
FileNode(j) ==
  [name |-> FileName(j), parent |-> <<>>, isdir |-> FALSE,
   mtime |-> BaseTime + 86400 * 30 + j]

NestedNode(k) ==
  [name |-> NestedName(k), parent |-> DirName(1), isdir |-> TRUE,
   mtime |-> BaseTime + 86400 * 60 + k]

ResultsTree(nd, nf, nn, pat) ==
  [i \in 1..nd |-> DirNode(i, pat)] \o [j \in 1..nf |-> FileNode(j)]
     \o [k \in 1..nn |-> NestedNode(k)]

Reverse(s) == [i \in 1..Len(s) |-> s[Len(s) + 1 - i]]

IsChild(n) == n.parent = <<>>

NameOfNode(n) == n.name

Names(nodes) == [i \in 1..Len(nodes) |-> NameOfNode(nodes[i])]

\* os.listdir(results_dir): the names of the immediate children, in an
\* order the file system chooses (here: slot order or its reverse)
ListDir(fs, rev) ==
  LET names == Names(SelectSeq(fs.nodes, IsChild))
  IN  IF rev THEN Reverse(names) ELSE names

\* the immediate child called name
Child(fs, name) ==
  CHOOSE n \in {fs.nodes[i] : i \in 1..Len(fs.nodes)} : IsChild(n) /\ n.name = name
\* a variant that takes every entry for a directory
IsDirAnyEntry(fs, d) ==
  \E i \in 1..Len(fs.nodes) : IsChild(fs.nodes[i]) /\ fs.nodes[i].name = d

\* os.path.isdir(os.path.join(results_dir, d))
IsDir(fs, d) ==
  \E i \in 1..Len(fs.nodes) :
     IsChild(fs.nodes[i]) /\ fs.nodes[i].name = d /\ fs.nodes[i].isdir

\* os.path.getmtime(full_path)
GetMTime(fs, d) == Child(fs, d).mtime

\* len([d for d in os.listdir(results_dir) if os.path.isdir(...)])
CountDirs(fs, rev) ==
  LET isdir(d) == IsDir(fs, d)
  IN  Len(SelectSeq(ListDir(fs, rev), isdir))

\* the loop that fills test_dirs with (d, mtime)
CollectDirs(fs, rev) ==
  LET isdir(d) == IsDir(fs, d)
      dirs == SelectSeq(ListDir(fs, rev), isdir)
  IN  [i \in 1..Len(dirs) |-> [name |-> dirs[i], mtime |-> GetMTime(fs, dirs[i])]]
\* a variant that sorts oldest first
SortsBeforeAscending(x, y) == x.mtime <= y.mtime

\* list.sort(key=lambda x: x[1], reverse=True): a stable sort, so that
\* entries of equal mtime keep the order in which they were collected
SortsBefore(x, y) == x.mtime >= y.mtime

RECURSIVE Merge(_, _)
Merge(a, b) ==
  IF a = <<>> THEN b
  ELSE IF b = <<>> THEN a
  ELSE IF SortsBefore(a[1], b[1])
       THEN <<a[1]>> \o Merge(Tail(a), b)
       ELSE <<b[1]>> \o Merge(a, Tail(b))

RECURSIVE SortByMTimeDesc(_)
SortByMTimeDesc(s) ==
  IF Len(s) <= 1 THEN s
  ELSE LET h == Len(s) \div 2
       IN  Merge(SortByMTimeDesc(SubSeq(s, 1, h)),
                 SortByMTimeDesc(SubSeq(s, h + 1, Len(s))))
\* a variant that prints the whole list
TopSliceAll(s) == s

\* test_dirs[:5]
TopSlice(s) == SubSeq(s, 1, Min(TopN, Len(s)))

\* test_name[:70]
CutName(name) == SubSeq(name, 1, Min(NameCut, Len(name)))

\* datetime.fromtimestamp(mtime).strftime('%H:%M:%S'), local time being UTC
TimeStr(mtime) == <<(mtime \div 3600) % 24, (mtime \div 60) % 60, mtime % 60>>

(***************************************************************************)
(* Printed lines                                                           *)
(***************************************************************************)
Line(kind, args) == [kind |-> kind, args |-> args]

\* the numbered lines of the "most recent" list
RecentLines(top) ==
  [i \in 1..Len(top) |->
     Line("recent", <<i, TimeStr(top[i].mtime), CutName(top[i].name)>>)]
\* a variant that takes the checkpoint count itself for progress
CompareLinesAtLeast(count) ==
  IF count >= CHECKPOINT_COUNT
  THEN << Line("progress", <<count - CHECKPOINT_COUNT>>),
          Line("remaining", <<TOTAL_TESTS - count>>) >>
  ELSE << Line("decreased", <<>>) >>

\* the if / elif / else on test_count against CHECKPOINT_COUNT
CompareLines(count) ==
  IF count > CHECKPOINT_COUNT
  THEN << Line("progress", <<count - CHECKPOINT_COUNT>>),
          Line("remaining", <<TOTAL_TESTS - count>>) >>
  ELSE IF count = CHECKPOINT_COUNT
  THEN << Line("stalled", <<>>) >>
  ELSE << Line("decreased", <<>>) >>

(***************************************************************************)
(* The application-data root  ~/AppData/Roaming/qcut  of count-projects.py *)
(***************************************************************************)
JsonSuffix == <<".", "j", "s", "o", "n">>

\* entries that may lie below the "projects" folder; parent is <<>> for an
\* entry directly inside it
ProjectCatalogue ==
  { {[name |-> <<"a">> \o JsonSuffix, parent |-> <<>>, isdir |-> FALSE]},
    {[name |-> <<"b">> \o JsonSuffix, parent |-> <<>>, isdir |-> FALSE]},
    {[name |-> <<"x">> \o JsonSuffix, parent |-> <<>>, isdir |-> TRUE]},
    {[name |-> <<"c", ".", "t", "x", "t">>, parent |-> <<>>, isdir |-> FALSE]},
    {[name |-> <<"s", "u", "b">>, parent |-> <<>>, isdir |-> TRUE],
     [name |-> <<"n">> \o JsonSuffix, parent |-> <<"s", "u", "b">>, isdir |-> FALSE]} }

\* what a storage directory may hold, as the entries rglob("*") yields
TreeCatalogue ==
  { <<>>,
    << [isdir |-> TRUE, size |-> 0],
       [isdir |-> FALSE, size |-> 1048576],
       [isdir |-> FALSE, size |-> 524288] >> }

storage_dirs == <<"Local Storage", "Session Storage", "blob_storage", "File System">>

\* the entries of the storage directory called name
StorageTree(name) ==
  IF name = "blob_storage"
  THEN << [isdir |-> TRUE, size |-> 0], [isdir |-> FALSE, size |-> 4096] >>
  ELSE << [isdir |-> FALSE, size |-> 100] >>

NoAppData ==
  [root |-> FALSE,
   projects |-> [exists |-> FALSE, nodes |-> {}],
   indexeddb |-> [exists |-> FALSE, nodes |-> <<>>],
   storage |-> {}]

\* fnmatch of the pattern "*.json": the name ends in ".json"
MatchesJson(name) ==
  /\ Len(name) >= Len(JsonSuffix)
  /\ SubSeq(name, Len(name) - Len(JsonSuffix) + 1, Len(name)) = JsonSuffix

\* projects_folder.glob("*.json"): the entries directly inside the folder
\* whose name matches the pattern, whatever their type
GlobJson(folder) == {n \in folder.nodes : n.parent = <<>> /\ MatchesJson(n.name)}

IsDirEntry(f) == f.isdir

IsFileEntry(f) == ~f.isdir

\* list(path.rglob("*")): every entry below the directory
RGlob(tree) == IF tree.exists THEN tree.nodes ELSE <<>>

RECURSIVE SumSizes(_)
SumSizes(files) ==
  IF files = <<>> THEN 0 ELSE files[1].size + SumSizes(Tail(files))

\* the lines printed for IndexedDB
IndexedDBLines(tree) ==
  IF tree.exists
  THEN LET db_files == RGlob(tree)
           db_dirs == SelectSeq(db_files, IsDirEntry)
           db_regular_files == SelectSeq(db_files, IsFileEntry)
       IN  << Line("indexeddb_exists", <<>>),
              Line("indexeddb_dirs", <<Len(db_dirs)>>),
              Line("indexeddb_files", <<Len(db_regular_files)>>),
              Line("indexeddb_size", <<SumSizes(db_regular_files)>>) >>
  ELSE << Line("indexeddb_missing", <<>>) >>

\* the lines printed by the loop over storage_dirs, from the i-th name on
RECURSIVE StorageLines(_, _)
StorageLines(present, i) ==
  IF i > Len(storage_dirs) THEN <<>>
  ELSE (IF storage_dirs[i] \in present
        THEN << Line("storage",
                     <<storage_dirs[i],
                       Len(SelectSeq(StorageTree(storage_dirs[i]), IsFileEntry))>>) >>
        ELSE <<>>)
       \o StorageLines(present, i + 1)

BannerLines ==
  << Line("rule", <<70>>), Line("title", <<>>), Line("rule", <<70>>),
     Line("checking_directory", <<>>) >>

SummaryHeaderLines ==
  << Line("blank", <<>>), Line("rule", <<70>>), Line("summary", <<>>),
     Line("rule", <<70>>) >>

TipLines ==
  << Line("rule", <<70>>), Line("tip", <<>>), Line("tip_before", <<>>),
     Line("tip_after", <<>>), Line("tip_compare", <<>>) >>

\* line 29: the branch taken on os.path.exists(results_dir)
\* a variant that goes on counting whether or not the directory is there
ResultsBranchAlways(exists) == "count"

ResultsBranch(exists) == IF exists THEN "count" ELSE "missing"

\* line 68: project_files == 0 and not indexeddb_dir.exists()
CleanCondition(n, store) == n = 0 /\ ~store

\* a variant that forgets the project-file count
PartialConditionStoreOnly(n, store) == store

\* line 70: project_files == 0 and indexeddb_dir.exists()
PartialCondition(n, store) == n = 0 /\ store

(***************************************************************************)
(* State                                                                   *)
(***************************************************************************)
VARIABLES
  script,         \* which script was started: "reporter" or "counter"
  pc,             \* position of the running script
  out,            \* the lines printed so far
  results,        \* the results directory: [exists, nodes]
  test_count,     \* check-test-progress.py: test_count
  test_dirs,      \* check-test-progress.py: test_dirs
  appdata,        \* the application-data root
  project_files,  \* count-projects.py: project_files
  probed,         \* count-projects.py: the paths inspected so far
  envops,         \* changes the other process has made to the file system
  changed         \* a result directory was created or removed between the two enumerations

vars == <<script, pc, out, results, test_count, test_dirs, appdata,
          project_files, probed, envops, changed>>

reporterVars == <<test_count, test_dirs>>
counterVars == <<project_files, probed>>
fsVars == <<results, appdata, envops>>

NoResults == [exists |-> FALSE, nodes |-> <<>>]

Emit(lines) == out' = out \o lines

(***************************************************************************)
(* Initial states                                                          *)
(***************************************************************************)
StartReporter(fs) ==
  /\ script = "reporter" /\ pc = "start" /\ out = <<>>
  /\ results = fs /\ appdata = NoAppData
  /\ test_count = 0 /\ test_dirs = <<>>
  /\ project_files = 0 /\ probed = {}
  /\ envops = 0 /\ changed = FALSE

StartCounter(ad) ==
  /\ script = "counter" /\ pc = "start" /\ out = <<>>
  /\ results = NoResults /\ appdata = ad
  /\ test_count = 0 /\ test_dirs = <<>>
  /\ project_files = 0 /\ probed = {}
  /\ envops = 0 /\ changed = FALSE

AppData(groups, hasProjects, idb, hasIdb, present) ==
  [root |-> TRUE,
   projects |-> [exists |-> hasProjects,
                 nodes |-> IF hasProjects THEN UNION groups ELSE {}],
   indexeddb |-> [exists |-> hasIdb, nodes |-> IF hasIdb THEN idb ELSE <<>>],
   storage |-> present]

StorageSets == SUBSET {storage_dirs[i] : i \in 1..Len(storage_dirs)}

Init ==
  \/ StartReporter(NoResults)
  \/ \E nd \in 0..MaxDirs, nf \in 0..MaxFiles, nn \in 0..MaxNested,
        pat \in MTimePatterns :
       /\ nn > 0 => nd > 0
       /\ StartReporter([exists |-> TRUE, nodes |-> ResultsTree(nd, nf, nn, pat)])
  \/ StartCounter(NoAppData)
  \/ \E groups \in SUBSET ProjectCatalogue, hasProjects \in BOOLEAN,
        idb \in TreeCatalogue, hasIdb \in BOOLEAN, present \in StorageSets :
       /\ ~hasProjects => groups = {}
       /\ ~hasIdb => idb = <<>>
       /\ StartCounter(AppData(groups, hasProjects, idb, hasIdb, present))

\* the smaller file systems on which another process is let loose
InitConc ==
  \/ StartReporter(NoResults)
  \/ \E nd \in 0..ConcMaxDirs, nf \in 0..1 :
       StartReporter([exists |-> TRUE, nodes |-> ResultsTree(nd, nf, 0, "ascending")])
  \/ StartCounter(NoAppData)
  \/ \E groups \in SUBSET {g \in ProjectCatalogue : \A n \in g : ~n.isdir},
        hasProjects \in BOOLEAN, hasIdb \in BOOLEAN,
        present \in {{}, {"blob_storage"}} :
       /\ ~hasProjects => groups = {}
       /\ StartCounter(AppData(groups, hasProjects, <<>>, hasIdb, present))

(***************************************************************************)
(* check-test-progress.py                                                  *)
(***************************************************************************)
\* lines 20-23: current time, checkpoint time, rule
PrintHeader ==
  /\ script = "reporter" /\ pc = "start"
  /\ Emit(<< Line("current_time", <<>>), Line("checkpoint_time", <<>>),
              Line("rule", <<60>>) >>)
  /\ pc' = "check"
  /\ UNCHANGED <<script, reporterVars, counterVars, fsVars, changed>>

\* line 29: if os.path.exists(results_dir)
CheckResultsDir ==
  /\ script = "reporter" /\ pc = "check"
  /\ pc' = ResultsBranch(results.exists)
  /\ UNCHANGED <<script, out, reporterVars, counterVars, fsVars, changed>>

\* line 30: test_count
CountTests ==
  /\ script = "reporter" /\ pc = "count"
  /\ \E rev \in BOOLEAN : test_count' = CountDirs(results, rev)
  /\ pc' = "report"
  /\ UNCHANGED <<script, out, test_dirs, counterVars, fsVars, changed>>

\* lines 32-34
PrintCounts ==
  /\ script = "reporter" /\ pc = "report"
  /\ Emit(<< Line("tests_completed", <<test_count, TOTAL_TESTS, Percent(test_count)>>),
              Line("checkpoint_count", <<CHECKPOINT_COUNT, TOTAL_TESTS, CHECKPOINT_PERCENT>>),
              Line("rule", <<60>>) >>)
  /\ pc' = "compare"
  /\ UNCHANGED <<script, reporterVars, counterVars, fsVars, changed>>

\* lines 36-44
CompareCheckpoint ==
  /\ script = "reporter" /\ pc = "compare"
  /\ Emit(CompareLines(test_count))
  /\ pc' = "recent"
  /\ UNCHANGED <<script, reporterVars, counterVars, fsVars, changed>>

\* lines 47-49
PrintRecentHeader ==
  /\ script = "reporter" /\ pc = "recent"
  /\ Emit(<< Line("blank", <<>>), Line("rule", <<60>>),
              Line("recent_header", <<>>), Line("rule", <<60>>) >>)
  /\ pc' = "list"
  /\ UNCHANGED <<script, reporterVars, counterVars, fsVars, changed>>

\* lines 52-57
ListTestDirs ==
  /\ script = "reporter" /\ pc = "list"
  /\ \E rev \in BOOLEAN : test_dirs' = CollectDirs(results, rev)
  /\ pc' = "sort"
  /\ UNCHANGED <<script, out, test_count, counterVars, fsVars, changed>>

\* line 60
SortTestDirs ==
  /\ script = "reporter" /\ pc = "sort"
  /\ test_dirs' = SortByMTimeDesc(test_dirs)
  /\ pc' = "top"
  /\ UNCHANGED <<script, out, test_count, counterVars, fsVars, changed>>

\* lines 63-65
PrintTop ==
  /\ script = "reporter" /\ pc = "top"
  /\ Emit(RecentLines(TopSlice(test_dirs)))
  /\ pc' = "footer"
  /\ UNCHANGED <<script, reporterVars, counterVars, fsVars, changed>>

\* lines 67-68
ReportMissing ==
  /\ script = "reporter" /\ pc = "missing"
  /\ Emit(<< Line("not_found", <<"results_dir">>) >>)
  /\ pc' = "footer"
  /\ UNCHANGED <<script, reporterVars, counterVars, fsVars, changed>>

\* line 70
PrintFooter ==
  /\ script = "reporter" /\ pc = "footer"
  /\ Emit(<< Line("blank", <<>>), Line("rule", <<60>>) >>)
  /\ pc' = "done"
  /\ UNCHANGED <<script, reporterVars, counterVars, fsVars, changed>>

(***************************************************************************)
(* count-projects.py                                                       *)
(***************************************************************************)
\* lines 17-20
PrintBanner ==
  /\ script = "counter" /\ pc = "start"
  /\ Emit(BannerLines)
  /\ pc' = "root"
  /\ UNCHANGED <<script, reporterVars, counterVars, fsVars, changed>>

\* a variant of lines 23-25 without the return
CheckRootNoReturn ==
  /\ script = "counter" /\ pc = "root"
  /\ probed' = probed \cup {"qcut"}
  /\ IF appdata.root
     THEN UNCHANGED out
     ELSE Emit(<< Line("no_qcut_dir", <<>>) >>)
  /\ pc' = "projects"
  /\ UNCHANGED <<script, reporterVars, project_files, fsVars, changed>>

\* lines 23-25
CheckRoot ==
  /\ script = "counter" /\ pc = "root"
  /\ probed' = probed \cup {"qcut"}
  /\ IF appdata.root
     THEN /\ pc' = "projects"
          /\ UNCHANGED out
     ELSE /\ Emit(<< Line("no_qcut_dir", <<>>) >>)
          /\ pc' = "done"
  /\ UNCHANGED <<script, reporterVars, project_files, fsVars, changed>>

\* lines 28-34
CountProjectFiles ==
  /\ script = "counter" /\ pc = "projects"
  /\ probed' = probed \cup {"projects"}
  /\ IF appdata.projects.exists
     THEN /\ project_files' = Cardinality(GlobJson(appdata.projects))
          /\ Emit(<< Line("projects_count", <<project_files'>>) >>)
     ELSE /\ project_files' = 0
          /\ Emit(<< Line("projects_missing", <<>>) >>)
  /\ pc' = "indexeddb"
  /\ UNCHANGED <<script, reporterVars, fsVars, changed>>

\* lines 37-53
CheckIndexedDB ==
  /\ script = "counter" /\ pc = "indexeddb"
  /\ probed' = probed \cup {"IndexedDB"}
  /\ Emit(IndexedDBLines(appdata.indexeddb))
  /\ pc' = "storage"
  /\ UNCHANGED <<script, reporterVars, project_files, fsVars, changed>>

\* lines 56-62
CheckStorage ==
  /\ script = "counter" /\ pc = "storage"
  /\ probed' = probed \cup {storage_dirs[i] : i \in 1..Len(storage_dirs)}
  /\ Emit(StorageLines(appdata.storage, 1))
  /\ pc' = "summary"
  /\ UNCHANGED <<script, reporterVars, project_files, fsVars, changed>>

\* lines 64-66
PrintSummaryHeader ==
  /\ script = "counter" /\ pc = "summary"
  /\ Emit(SummaryHeaderLines)
  /\ pc' = "classify"
  /\ UNCHANGED <<script, reporterVars, counterVars, fsVars, changed>>

\* lines 68-69: if project_files == 0 and not indexeddb_dir.exists()
ClassifyClean ==
  /\ script = "counter" /\ pc = "classify"
  /\ IF CleanCondition(project_files, appdata.indexeddb.exists)
     THEN /\ Emit(<< Line("clean", <<>>) >>)
          /\ pc' = "tip"
     ELSE /\ UNCHANGED out
          /\ pc' = "classify_else"
  /\ UNCHANGED <<script, reporterVars, counterVars, fsVars, changed>>

\* lines 70-75: elif project_files == 0 and indexeddb_dir.exists() ... else
ClassifyPartial ==
  /\ script = "counter" /\ pc = "classify_else"
  /\ IF PartialCondition(project_files, appdata.indexeddb.exists)
     THEN Emit(<< Line("partially_clean", <<>>), Line("partially_clean_note", <<>>) >>)
     ELSE Emit(<< Line("has_data", <<project_files>>), Line("has_data_note", <<>>) >>)
  /\ pc' = "tip"
  /\ UNCHANGED <<script, reporterVars, counterVars, fsVars, changed>>

\* lines 77-81
PrintTip ==
  /\ script = "counter" /\ pc = "tip"
  /\ Emit(TipLines)
  /\ pc' = "done"
  /\ UNCHANGED <<script, reporterVars, counterVars, fsVars, changed>>

(***************************************************************************)
(* Another process working on the same directories while a script runs.    *)
(* Its steps fall between the statements of the script; each enumeration   *)
(* of a directory is taken as one step.                                    *)
(***************************************************************************)
Running == pc # "done"

\* test_count has been taken (line 30) and the loop of lines 53-57 has not run
BetweenCountAndList == pc \in {"report", "compare", "recent", "list"}

RemoveAt(s, i) == SubSeq(s, 1, i - 1) \o SubSeq(s, i + 1, Len(s))

NewestMTime(nodes) ==
  IF nodes = <<>> THEN BaseTime
  ELSE CHOOSE t \in {nodes[i].mtime : i \in 1..Len(nodes)} :
         \A i \in 1..Len(nodes) : nodes[i].mtime <= t

\* a test finishes: a new result directory appears, modified now
CreateResultDir ==
  /\ script = "reporter" /\ Running /\ results.exists
  /\ envops < MaxEnvOps
  /\ results' = [results EXCEPT !.nodes =
        Append(@, [name |-> DirName(ConcMaxDirs + 1 + envops), parent |-> <<>>,
                   isdir |-> TRUE, mtime |-> NewestMTime(@) + 1])]
  /\ envops' = envops + 1
  /\ changed' = (changed \/ BetweenCountAndList)
  /\ UNCHANGED <<script, pc, out, reporterVars, counterVars, appdata>>

\* a result directory is cleaned away
RemoveResultDir ==
  /\ script = "reporter" /\ Running /\ results.exists
  /\ envops < MaxEnvOps
  /\ \E i \in 1..Len(results.nodes) :
       /\ results.nodes[i].isdir /\ IsChild(results.nodes[i])
       /\ results' = [results EXCEPT !.nodes = RemoveAt(@, i)]
  /\ envops' = envops + 1
  /\ changed' = (changed \/ BetweenCountAndList)
  /\ UNCHANGED <<script, pc, out, reporterVars, counterVars, appdata>>

\* the application opens its database
CreateIndexedDB ==
  /\ script = "counter" /\ Running /\ appdata.root
  /\ envops < MaxEnvOps
  /\ ~appdata.indexeddb.exists
  /\ appdata' = [appdata EXCEPT !.indexeddb = [exists |-> TRUE, nodes |-> <<>>]]
  /\ envops' = envops + 1
  /\ UNCHANGED <<script, pc, out, reporterVars, counterVars, results, changed>>

\* the cleanup deletes the database
RemoveIndexedDB ==
  /\ script = "counter" /\ Running /\ appdata.root
  /\ envops < MaxEnvOps
  /\ appdata.indexeddb.exists
  /\ appdata' = [appdata EXCEPT !.indexeddb = [exists |-> FALSE, nodes |-> <<>>]]
  /\ envops' = envops + 1
  /\ UNCHANGED <<script, pc, out, reporterVars, counterVars, results, changed>>

(***************************************************************************)
(* Specifications                                                          *)
(***************************************************************************)
Reporter ==
  \/ PrintHeader \/ CheckResultsDir \/ CountTests \/ PrintCounts
  \/ CompareCheckpoint \/ PrintRecentHeader \/ ListTestDirs \/ SortTestDirs
  \/ PrintTop \/ ReportMissing \/ PrintFooter

count_projects ==
  \/ PrintBanner \/ CheckRoot \/ CountProjectFiles \/ CheckIndexedDB
  \/ CheckStorage \/ PrintSummaryHeader \/ ClassifyClean \/ ClassifyPartial
  \/ PrintTip

OtherProcess ==
  \/ CreateResultDir \/ RemoveResultDir \/ CreateIndexedDB \/ RemoveIndexedDB

Next == Reporter \/ count_projects

NextConc == Next \/ OtherProcess

\* a script running alone
Spec == Init /\ [][Next]_vars

\* a script running while another process changes the directories it reads
SpecConc == InitConc /\ [][NextConc]_vars

(***************************************************************************)
(* Reading the output                                                      *)
(***************************************************************************)
Kinds(lines) == [i \in 1..Len(lines) |-> lines[i].kind]

CountKind(kind) == Cardinality({i \in 1..Len(out) : out[i].kind = kind})

HasLine(kind) == \E i \in 1..Len(out) : out[i].kind = kind

ArgsOf(kind) == out[CHOOSE i \in 1..Len(out) : out[i].kind = kind].args

IsRecentLine(l) == l.kind = "recent"

RecentOut == SelectSeq(out, IsRecentLine)

\* the result directories: the immediate children that are directories
ResultDirs ==
  {results.nodes[i] : i \in {j \in 1..Len(results.nodes) :
       results.nodes[j].isdir /\ results.nodes[j].parent = <<>>}}

OtherEntries ==
  {i \in 1..Len(results.nodes) :
       ~results.nodes[i].isdir /\ results.nodes[i].parent = <<>>}

NestedEntries == {i \in 1..Len(results.nodes) : results.nodes[i].parent # <<>>}

DistinctMTimes == \A d, f \in ResultDirs : d # f => d.mtime # f.mtime

Compared == script = "reporter" /\ pc \in {"recent", "list", "sort", "top", "footer", "done"}
               /\ HasLine("tests_completed")

ReporterDone == script = "reporter" /\ pc = "done"

CounterDone == script = "counter" /\ pc = "done"

Classified == script = "counter" /\ pc \in {"tip", "done"} /\ appdata.root

Prefix(name, n) == [i \in 1..Min(n, Len(name)) |-> name[i]]

(***************************************************************************)
(* Properties                                                              *)
(***************************************************************************)

\* C1: once the comparison has been printed, exactly one of the three notices
\* is there, chosen by the printed count c against the checkpoint count 40:
\* c > 40 the progress notice with delta c - 40 and the remaining count
\* 66 - c; c = 40 the stalled notice alone; c < 40 the decrease notice alone.
C1_DeltaNotice ==
  Compared =>
    LET c == ArgsOf("tests_completed")[1]
        np == CountKind("progress")
        nr == CountKind("remaining")
        ns == CountKind("stalled")
        nd == CountKind("decreased")
    IN  /\ c > 40 => /\ np = 1 /\ nr = 1 /\ ns = 0 /\ nd = 0
                     /\ ArgsOf("progress") = <<c - 40>>
                     /\ ArgsOf("remaining") = <<66 - c>>
        /\ c = 40 => np = 0 /\ nr = 0 /\ ns = 1 /\ nd = 0
        /\ c < 40 => np = 0 /\ nr = 0 /\ ns = 0 /\ nd = 1

C1_Witness ==
  /\ ReporterDone /\ HasLine("progress")
  /\ ArgsOf("tests_completed")[1] = 45
  /\ ArgsOf("progress") = <<5>> /\ ArgsOf("remaining") = <<21>>

\* C2: with the application-data root present, exactly one classification is
\* printed: clean for no project files and no store, partially clean for no
\* project files and a store, has data for any project file, store or not.
C2_Classification ==
  Classified =>
    LET n == project_files
        store == appdata.indexeddb.exists
        nc == CountKind("clean")
        np == CountKind("partially_clean")
        nh == CountKind("has_data")
    IN  /\ nc + np + nh = 1
        /\ (n = 0 /\ ~store) => nc = 1
        /\ (n = 0 /\ store) => np = 1
        /\ n > 0 => nh = 1

C2_Witness ==
  /\ CounterDone /\ project_files > 0 /\ appdata.indexeddb.exists
  /\ HasLine("has_data")

\* C3: the printed tests-completed figure is the number of directories among
\* the immediate children of the results directory, whatever other entries
\* lie next to them or below them.
C3_CountAccuracy ==
  (script = "reporter" /\ HasLine("tests_completed")) =>
     ArgsOf("tests_completed")[1] = Cardinality(ResultDirs)

C3_Witness ==
  /\ ReporterDone /\ HasLine("tests_completed")
  /\ ArgsOf("tests_completed")[1] = 3
  /\ Cardinality(OtherEntries) = 2 /\ Cardinality(NestedEntries) = 1

\* C4: the percent printed on the tests-completed line is the integer floor
\* of 100 * c / 66 for the printed count c, also for c above 66.
C4_PercentFloor ==
  (script = "reporter" /\ HasLine("tests_completed")) =>
     LET a == ArgsOf("tests_completed")
     IN  a[3] = (100 * a[1]) \div 66

C4_Witness ==
  /\ ReporterDone /\ HasLine("tests_completed")
  /\ ArgsOf("tests_completed") = <<67, 66, 101>>

\* C5: when the result directories have pairwise distinct modification
\* times, the list holds min(5, number of directories) lines, and its k-th
\* line is numbered k and shows the first 70 characters of the name of the
\* directory with exactly k - 1 directories modified after it.
C5_TopFive ==
  (ReporterDone /\ results.exists /\ DistinctMTimes) =>
     LET L == RecentOut
         Rank(d) == Cardinality({f \in ResultDirs : f.mtime > d.mtime}) + 1
     IN  /\ Len(L) = Min(5, Cardinality(ResultDirs))
         /\ \A d \in ResultDirs :
              LET k == Rank(d)
              IN  k <= Len(L) =>
                    /\ L[k].args[1] = k
                    /\ L[k].args[3] = Prefix(d.name, 70)

C5_Witness ==
  /\ ReporterDone /\ DistinctMTimes /\ Cardinality(ResultDirs) > 5
  /\ Len(RecentOut) = 5
  /\ \E k \in 1..5, d \in ResultDirs :
       /\ Len(d.name) > 70
       /\ RecentOut[k].args[3] = Prefix(d.name, 70)
  /\ RecentOut[1].args[3] # DirName(1)

\* C6 as stated: with the results directory missing, the error line is the
\* only line of the run.
C6_OnlyErrorLine ==
  (ReporterDone /\ ~results.exists) => Kinds(out) = <<"not_found">>

\* C6 amended: with the results directory missing, the run prints the two
\* time lines and the rule, the error line naming the missing path, and the
\* closing blank line and rule, and nothing else.
C6_MissingResultsDir ==
  (ReporterDone /\ ~results.exists) =>
     /\ Kinds(out) = <<"current_time", "checkpoint_time", "rule", "not_found",
                       "blank", "rule">>
     /\ ArgsOf("not_found") = <<"results_dir">>

C6_Witness == ReporterDone /\ ~results.exists /\ HasLine("not_found")

\* C7: with the application-data root missing, the run ends on the "no
\* projects found" message: only the root was inspected, and nothing follows
\* the banner but that message.
C7_MissingRoot ==
  (script = "counter" /\ ~appdata.root /\ pc \notin {"start", "root"}) =>
     /\ pc = "done"
     /\ Kinds(out) = Kinds(BannerLines) \o <<"no_qcut_dir">>
     /\ probed = {"qcut"}

C7_Witness == CounterDone /\ ~appdata.root /\ HasLine("no_qcut_dir")

\* C8: the project count is the number of files directly inside "projects"
\* whose name ends in ".json", and zero when "projects" is absent.
C8_JsonFilesOnly ==
  (script = "counter" /\ pc \notin {"start", "root", "projects"} /\ appdata.root) =>
     LET files == {n \in appdata.projects.nodes :
                     ~n.isdir /\ n.parent = <<>> /\ MatchesJson(n.name)}
     IN  IF appdata.projects.exists
         THEN project_files = Cardinality(files)
                /\ ArgsOf("projects_count") = <<Cardinality(files)>>
         ELSE project_files = 0 /\ ~HasLine("projects_count")

\* C9: "DATABASE HAS DATA" is printed only if the counted number of project
\* files is greater than zero, whatever another process does to IndexedDB.
C9_HasDataOnlyWithFiles ==
  (script = "counter" /\ HasLine("has_data")) => project_files > 0

\* C10 as stated: the list has min(5, printed tests-completed count) lines,
\* also when result directories come and go between the two enumerations.
C10_ListMatchesCount ==
  (ReporterDone /\ HasLine("tests_completed")) =>
     CountKind("recent") = Min(5, ArgsOf("tests_completed")[1])

\* C10 amended: the list has min(5, printed tests-completed count) lines
\* when no result directory was created or removed from the counting
\* enumeration to the end of the listing enumeration.
C10_ListMatchesCountIfUnchanged ==
  (ReporterDone /\ HasLine("tests_completed") /\ ~changed) =>
     CountKind("recent") = Min(5, ArgsOf("tests_completed")[1])

C10_Witness ==
  /\ ReporterDone /\ HasLine("tests_completed") /\ ~changed
  /\ envops > 0
  /\ ArgsOf("tests_completed")[1] > 5
  /\ CountKind("recent") = 5
====
